---- MODULE Spec2Model ----
(***************************************************************************)
(* Purchase / settlement pipeline of the SellPDF backend.                  *)
(*                                                                         *)
(* The state is the three ledger tables (pdf_products, purchases,          *)
(* earnings) plus one record per HTTP request.  Every request handler is   *)
(* cut at its `await pool.query(...)` / gateway calls: each statement is   *)
(* one atomic step (auto-commit, no transaction is opened anywhere in the  *)
(* services), and steps of different requests interleave freely.           *)
(*                                                                         *)
(* Money is held in whole cents (NUMERIC(10,2) columns).                   *)
(***************************************************************************)
EXTENDS Integers, FiniteSets, Sequences, TLC

\* ------------------------------------------------------------------ bounds
\* Number of HTTP requests of one run; request i uses i as the value of
\* every fresh identifier it obtains (uuid_generate_v4(), gateway order id).
NumProcs == 3

Procs == 1..NumProcs

\* ------------------------------------------------------------- constants
\* SQL NULL / JavaScript undefined for identifier- and number-valued fields.
Null == 0

\* config.platform.commissionRate (default 0.10), in percent.
CommissionPercent == 10

Users == {"s1", "b1"}

\* The users who list products, and those who only buy.
Sellers == {"s1"}

Buyers == Users \ Sellers

ProductIds == {"p1"}

\* Prices (cents) a listing is created with: free, and 10.05, whose 10 % fee
\* falls on a half cent.
Prices == {0, 1005}

\* A wider choice of prices: also 0.35, whose 10 % fee is a half cent as
\* well, and 100.00.
ListedPrices == Prices \cup {35, 10000}

\* Order references: request i's gateway order is i; UnknownOrder is a
\* reference no order of this backend carries.
UnknownOrder == NumProcs + 1

OrderIds == Procs \cup {UnknownOrder}

\* ---------------------------------------------------------------- webhook
EventTypes == {"payment.captured", "payment.failed"}

\* event.event, payload.payment.entity.order_id and .id; the gateway has one
\* payment reference per order.
Bodies == {[event |-> e, order_id |-> o, payment_id |-> o] :
              e \in EventTypes, o \in OrderIds}

NoBody == [event |-> "-", order_id |-> Null, payment_id |-> Null]

\* HMAC-SHA256(rawBody, webhookSecret): collision free, so the digest is
\* identified with the body it was computed over.
Hmac(rawBody) == [present |-> TRUE, mac |-> rawBody]

\* No X-Razorpay-Signature header on the request.
NoSignature == [present |-> FALSE, mac |-> NoBody]

\* The body with its event field altered after signing.
Tampered(rawBody) ==
    [rawBody EXCEPT !.event = IF @ = "payment.captured"
                              THEN "payment.failed" ELSE "payment.captured"]

\* What a caller can put in the header for a body: the gateway's signature of
\* it, the signature of the body it was altered from, or nothing.
Signatures(rawBody) == {Hmac(rawBody), Hmac(Tampered(rawBody)), NoSignature}

\* ---------------------------------------------------------------- errors
Err(kind, status) == [kind |-> kind, status |-> status]

\* errorHandler: status = err.status || 500.
errorHandler(err) ==
    [status |-> IF err.status # Null THEN err.status ELSE 500,
     kind |-> err.kind, order_id |-> Null, purchase_id |-> Null,
     amount |-> Null]

\* A JSON response; amount is set by the create-order reply only.
Reply(status, kind, order_id, purchase_id) ==
    [status |-> status, kind |-> kind, order_id |-> order_id,
     purchase_id |-> purchase_id, amount |-> Null]

NoReply == Reply(Null, "-", Null, Null)

\* ----------------------------------------------------------------- state
VARIABLES
    products,   \* table pdf_products
    purchases,  \* table purchases
    earnings,   \* table earnings
    req         \* req[i]: request i, its inputs, position, locals, response

vars == <<products, purchases, earnings, req>>

NoLocals ==
    [seller_id |-> "-", price |-> Null, row_id |-> Null, order_id |-> Null,
     product_id |-> "-", amount |-> Null, paid_count |-> Null,
     deleted |-> Null]

\* seen: the requests that had been answered when this one arrived (history).
IdleReq ==
    [op |-> "-", pc |-> "idle", user |-> "-", product |-> "-",
     body |-> NoBody, sig |-> NoSignature, loc |-> NoLocals, res |-> NoReply,
     seen |-> {}]

Init ==
    /\ \E price \in Prices :
          products = {[id |-> "p1", seller_id |-> "s1", price |-> price,
                       is_active |-> TRUE]}
    /\ purchases = {}
    /\ earnings = {}
    /\ req = [i \in Procs |-> IdleReq]

\* The same start with the listing's price drawn from ListedPrices.
InitListed ==
    /\ \E price \in ListedPrices :
          products = {[id |-> "p1", seller_id |-> "s1", price |-> price,
                       is_active |-> TRUE]}
    /\ purchases = {}
    /\ earnings = {}
    /\ req = [i \in Procs |-> IdleReq]

\* Requests are anonymous, so they are started in index order.
CanStart(i) ==
    /\ req[i].pc = "idle"
    /\ \A j \in Procs : j < i => req[j].pc # "idle"

Answered == {j \in Procs : req[j].pc = "done"}

Begin(i, op, pc, user, product, body, sig) ==
    req' = [req EXCEPT ![i] =
        [op |-> op, pc |-> pc, user |-> user, product |-> product,
         body |-> body, sig |-> sig, loc |-> NoLocals, res |-> NoReply,
         seen |-> Answered]]

Goto(i, pc, loc) ==
    req' = [req EXCEPT ![i].pc = pc, ![i].loc = loc]

\* The handler returns (res.json) or throws into next(err) -> errorHandler.
Finish(i, res) ==
    req' = [req EXCEPT ![i].pc = "done", ![i].loc = NoLocals, ![i].res = res]

Throw(i, err) == Finish(i, errorHandler(err))

\* ------------------------------------------------------- ledger store
\* Mutant: the table without its uniqueness constraint.
uq_buyer_product_Dropped(rows, row) == TRUE

\* CONSTRAINT uq_buyer_product UNIQUE (buyer_id, product_id)
uq_buyer_product(rows, row) ==
    \A r \in rows :
        ~(r.buyer_id = row.buyer_id /\ r.product_id = row.product_id)

\* purchases.buyer_id / purchases.product_id REFERENCES ...
purchases_fk(row) ==
    /\ row.buyer_id \in Users
    /\ \E p \in products : p.id = row.product_id

\* earnings.purchase_id REFERENCES purchases(id) ... UNIQUE
earnings_purchase_unique(rows, row) ==
    \A e \in rows : e.purchase_id # row.purchase_id

earnings_fk(row) ==
    /\ \E r \in purchases : r.id = row.purchase_id
    /\ row.seller_id \in Users

\* Mutant: earnings.purchase_id without ON DELETE CASCADE (and unenforced).
DeletePurchases_NoCascade(gone) ==
    /\ purchases' = purchases \ gone
    /\ UNCHANGED earnings

\* Mutant: the DELETE statement removing nothing.
DeletePurchases_Nothing(gone) == UNCHANGED <<purchases, earnings>>

\* DELETE FROM purchases ...: ON DELETE CASCADE removes the earnings rows.
DeletePurchases(gone) ==
    /\ purchases' = purchases \ gone
    /\ earnings' = {e \in earnings : \A r \in gone : e.purchase_id # r.id}

\* DELETE FROM pdf_products WHERE id = $1, cascading to purchases, earnings.
DeleteProductRow(productId) ==
    /\ products' = {p \in products : p.id # productId}
    /\ DeletePurchases({r \in purchases : r.product_id = productId})

\* --------------------------------------------------- payment.service.js
\* createOrder({ buyerId, productId }) -- POST /api/payment/create-order
CreateOrderStart(i) ==
    /\ CanStart(i)
    /\ \E b \in Users, p \in ProductIds :
          /\ Begin(i, "createOrder", "co_product", b, p, NoBody, NoSignature)
          /\ UNCHANGED <<products, purchases, earnings>>

\* Mutant: the self-purchase check left out.
OwnProduct_Unchecked(product, buyerId) == FALSE

\* product.seller_id === buyerId
OwnProduct(product, buyerId) == product.seller_id = buyerId

\* Mutant: the buyer credited in place of the product's seller.
EarningsSeller_Buyer(product, buyerId) == buyerId

\* The seller_id createOrder writes to the free path's earnings row:
\* product.seller_id of the product fetched in step 1.
EarningsSeller(product, buyerId) == product.seller_id

\* 1. fetch product; 404 when absent, 400 on the seller's own product.
CreateOrderProduct(i) ==
    /\ req[i].pc = "co_product"
    /\ LET rows == {p \in products : p.id = req[i].product} IN
         IF rows = {}
         THEN Throw(i, Err("Product not found", 404))
         ELSE LET product == CHOOSE p \in rows : TRUE IN
              IF OwnProduct(product, req[i].user)
              THEN Throw(i, Err("You cannot purchase your own product", 400))
              ELSE Goto(i, "co_existing",
                        [req[i].loc EXCEPT
                            !.seller_id = EarningsSeller(product, req[i].user),
                                           !.price = product.price])
    /\ UNCHANGED <<products, purchases, earnings>>

\* Mutant: the price === 0 branch left out, every product taking the paid path.
AfterExisting_AlwaysGateway(price) == "co_gateway"

\* Where createOrder continues after the duplicate check: free or paid path.
AfterExisting(price) == IF price = 0 THEN "co_free_purchase" ELSE "co_gateway"

\* Mutant: the status of the existing row never read as paid.
AlreadyPurchased_Never(existing) == FALSE

\* existing.status === 'paid'
AlreadyPurchased(existing) == existing.status = "paid"

\* 2. SELECT id, status FROM purchases WHERE buyer_id = $1 AND product_id = $2
CreateOrderExisting(i) ==
    /\ req[i].pc = "co_existing"
    /\ LET rows == {r \in purchases : /\ r.buyer_id = req[i].user
                                      /\ r.product_id = req[i].product} IN
         IF rows # {}
         THEN \E existing \in rows :
                IF AlreadyPurchased(existing)
                THEN Throw(i, Err("You have already purchased this product", 409))
                ELSE Goto(i, "co_delete",
                          [req[i].loc EXCEPT !.row_id = existing.id])
         ELSE Goto(i, AfterExisting(req[i].loc.price), req[i].loc)
    /\ UNCHANGED <<products, purchases, earnings>>

\* DELETE FROM purchases WHERE id = $1 (the pending/failed row read above);
\* deleted is the statement's rowCount, which the code does not read.
CreateOrderDelete(i) ==
    /\ req[i].pc = "co_delete"
    /\ LET gone == {r \in purchases : r.id = req[i].loc.row_id} IN
         /\ DeletePurchases(gone)
         /\ Goto(i, AfterExisting(req[i].loc.price),
                 [req[i].loc EXCEPT !.deleted = Cardinality(gone)])
    /\ UNCHANGED products

\* 3. free path: INSERT INTO purchases (..., status) VALUES (..., 'paid')
CreateOrderFreePurchase(i) ==
    /\ req[i].pc = "co_free_purchase"
    /\ LET row == [id |-> i, buyer_id |-> req[i].user,
                   product_id |-> req[i].product,
                   razorpay_order_id |-> Null, razorpay_payment_id |-> Null,
                   amount |-> 0, status |-> "paid"] IN
         IF ~purchases_fk(row)
         THEN /\ Throw(i, Err("purchases foreign key violation", Null))
              /\ UNCHANGED purchases
         ELSE IF ~uq_buyer_product(purchases, row)
         THEN /\ Throw(i, Err("uq_buyer_product violation", Null))
              /\ UNCHANGED purchases
         ELSE /\ purchases' = purchases \cup {row}
              /\ Goto(i, "co_free_earnings",
                      [req[i].loc EXCEPT !.row_id = row.id])
    /\ UNCHANGED <<products, earnings>>

\* free path: INSERT INTO earnings (...) VALUES (purchaseId, seller, 0, 0, 0)
CreateOrderFreeEarnings(i) ==
    /\ req[i].pc = "co_free_earnings"
    /\ LET row == [id |-> i, purchase_id |-> req[i].loc.row_id,
                   seller_id |-> req[i].loc.seller_id,
                   total_amount |-> 0, platform_fee |-> 0,
                   seller_amount |-> 0] IN
         IF ~earnings_fk(row)
         THEN /\ Throw(i, Err("earnings foreign key violation", Null))
              /\ UNCHANGED earnings
         ELSE IF ~earnings_purchase_unique(earnings, row)
         THEN /\ Throw(i, Err("earnings_purchase_id_key violation", Null))
              /\ UNCHANGED earnings
         ELSE /\ earnings' = earnings \cup {row}
              /\ Finish(i, Reply(201, "free", Null, Null))
    /\ UNCHANGED <<products, purchases>>

\* 4. razorpay.orders.create(...): the gateway returns a fresh order id.
CreateOrderGateway(i) ==
    /\ req[i].pc = "co_gateway"
    /\ Goto(i, "co_insert", [req[i].loc EXCEPT !.order_id = i])
    /\ UNCHANGED <<products, purchases, earnings>>

\* amountPaise = Math.round(price * 100): price is held in cents, which is
\* the value of price * 100, and Math.round(x) is floor(x + 1/2).
AmountPaise(price) == (2 * price + 1) \div 2

\* INSERT INTO purchases (..., razorpay_order_id, amount, status)
\*   VALUES (..., order.id, price, 'pending'); then return
\*   { order_id: order.id, amount: amountPaise, ... }.
CreateOrderInsert(i) ==
    /\ req[i].pc = "co_insert"
    /\ LET row == [id |-> i, buyer_id |-> req[i].user,
                   product_id |-> req[i].product,
                   razorpay_order_id |-> req[i].loc.order_id,
                   razorpay_payment_id |-> Null,
                   amount |-> req[i].loc.price, status |-> "pending"] IN
         IF ~purchases_fk(row)
         THEN /\ Throw(i, Err("purchases foreign key violation", Null))
              /\ UNCHANGED purchases
         ELSE IF ~uq_buyer_product(purchases, row)
         THEN /\ Throw(i, Err("uq_buyer_product violation", Null))
              /\ UNCHANGED purchases
         ELSE /\ purchases' = purchases \cup {row}
              /\ Finish(i, [Reply(201, "order", req[i].loc.order_id, Null)
                               EXCEPT !.amount = AmountPaise(req[i].loc.price)])
    /\ UNCHANGED <<products, earnings>>

createOrder(i) ==
    \/ CreateOrderStart(i)
    \/ CreateOrderProduct(i)
    \/ CreateOrderExisting(i)
    \/ CreateOrderDelete(i)
    \/ CreateOrderFreePurchase(i)
    \/ CreateOrderFreeEarnings(i)
    \/ CreateOrderGateway(i)
    \/ CreateOrderInsert(i)

\* Order references an event can name: one create-order has returned to a
\* client (the gateway has no payment for an order nobody received), or one
\* unknown to this backend.
Issued(orderId) ==
    \/ orderId = UnknownOrder
    \/ \E j \in Procs : /\ req[j].pc = "done"
                        /\ req[j].res.kind = "order"
                        /\ req[j].res.order_id = orderId

\* Mutant: the order looked up before the signature is verified, a body
\* naming no known order being let through to the "nothing to do" answers.
SignatureValid_LedgerFirst(rawBody, signature) ==
    \/ Hmac(rawBody) = signature
    \/ \A r \in purchases : r.razorpay_order_id # rawBody.order_id

\* Mutant: the signature comparison left out.
SignatureValid_Unchecked(rawBody, signature) == TRUE

\* Step 1 of handleWebhook: expectedSig !== signature rejects.
SignatureValid(rawBody, signature) == Hmac(rawBody) = signature

\* Mutant: every event type handled as a captured payment.
IsCaptured_AnyEvent(event) == TRUE

\* event.event === 'payment.captured'
IsCaptured(event) == event.event = "payment.captured"

\* Mutant: the UPDATE settling whichever purchase is pending, without its
\* "razorpay_order_id = $2" condition.
PendingByOrder_AnyOrder(orderId) ==
    {r \in purchases : r.status = "pending"}

\* Mutant: the UPDATE without its "AND status = 'pending'" condition.
PendingByOrder_AnyStatus(orderId) ==
    {r \in purchases : r.razorpay_order_id = orderId}

\* Rows hit by UPDATE purchases SET status = 'paid' ...
\*   WHERE razorpay_order_id = $2 AND status = 'pending'
PendingByOrder(orderId) ==
    {r \in purchases : r.razorpay_order_id = orderId /\ r.status = "pending"}

\* Amounts t (cents) ending in 5 for which the double t/100 * 0.10 lies just
\* below the half cent, so that toFixed(2) rounds the fee down (IEEE 754).
BelowHalfCent == {15, 35, 115, 145, 205, 215, 305, 355, 365, 435, 485, 585,
                  605, 735, 835, 845, 945, 985, 995}

\* platformFee = +(totalAmount * commissionRate).toFixed(2)
PlatformFee(totalAmount) ==
    LET x == totalAmount * CommissionPercent
        q == x \div 100
        r == x % 100
    IN IF r > 50 \/ (r = 50 /\ totalAmount \notin BelowHalfCent)
       THEN q + 1 ELSE q

\* Mutant: the seller's share rounded on its own, as 90 % of the total.
SellerAmount_OwnRounding(totalAmount, platformFee) ==
    (totalAmount * (100 - CommissionPercent) + 50) \div 100

\* sellerAmount = +(totalAmount - platformFee).toFixed(2)
SellerAmount(totalAmount, platformFee) == totalAmount - platformFee

\* controller webhook + handleWebhook steps 1-2, which run before the first
\* await: header check, HMAC comparison, JSON.parse, event type.  A request
\* without the header is answered before req.body is read, so no body is
\* recorded for it.
WebhookReceive(i) ==
    /\ CanStart(i)
    /\ \E body \in {b \in Bodies : Issued(b.order_id)} :
       \E sig \in Signatures(body) :
          /\ LET r == [op |-> "webhook", pc |-> "wh_update", user |-> "-",
                       product |-> "-",
                       body |-> IF sig.present THEN body ELSE NoBody, sig |-> sig,
                       loc |-> NoLocals, res |-> NoReply, seen |-> Answered] IN
               req' = [req EXCEPT ![i] =
                  IF ~sig.present
                  THEN [r EXCEPT !.pc = "done",
                          !.res = Reply(400, "Missing signature header", Null, Null)]
                  ELSE IF ~SignatureValid(body, sig)
                  THEN [r EXCEPT !.pc = "done",
                          !.res = errorHandler(Err("Invalid webhook signature", 400))]
                  ELSE IF ~IsCaptured(body)
                  THEN [r EXCEPT !.pc = "done",
                          !.res = Reply(200, "ignored", Null, Null)]
                  ELSE r]
          /\ UNCHANGED <<products, purchases, earnings>>

\* Mutant: the settled total taken from the product's price at settlement.
SettledAmount_ListPrice(purchase) ==
    LET rows == {p \in products : p.id = purchase.product_id} IN
      IF rows = {} THEN purchase.amount ELSE (CHOOSE p \in rows : TRUE).price

\* totalAmount = parseFloat(purchase.amount) of the row the UPDATE returned.
SettledAmount(purchase) == purchase.amount

\* Step 3: the conditional UPDATE ... RETURNING id, product_id, amount.
WebhookUpdate(i) ==
    /\ req[i].pc = "wh_update"
    /\ LET hit == PendingByOrder(req[i].body.order_id) IN
         IF hit = {}
         THEN /\ Finish(i, Reply(200, "already_processed", Null, Null))
              /\ UNCHANGED purchases
         ELSE /\ purchases' = (purchases \ hit) \cup
                    {[r EXCEPT !.status = "paid",
                               !.razorpay_payment_id = req[i].body.payment_id]
                       : r \in hit}
              /\ \E purchase \in hit :
                    Goto(i, "wh_seller",
                         [req[i].loc EXCEPT !.row_id = purchase.id,
                                            !.product_id = purchase.product_id,
                                            !.amount = SettledAmount(purchase)])
    /\ UNCHANGED <<products, earnings>>

\* Step 4a: SELECT seller_id FROM pdf_products WHERE id = $1; rows[0] of an
\* empty result is undefined and reading .seller_id throws a TypeError.
WebhookSeller(i) ==
    /\ req[i].pc = "wh_seller"
    /\ LET rows == {p \in products : p.id = req[i].loc.product_id} IN
         IF rows = {}
         THEN Throw(i, Err("TypeError", Null))
         ELSE \E p \in rows :
                Goto(i, "wh_earnings",
                     [req[i].loc EXCEPT !.seller_id = p.seller_id])
    /\ UNCHANGED <<products, purchases, earnings>>

\* Step 4b: INSERT INTO earnings (...) and the success reply.
WebhookEarnings(i) ==
    /\ req[i].pc = "wh_earnings"
    /\ LET totalAmount == req[i].loc.amount
           platformFee == PlatformFee(totalAmount)
           row == [id |-> i, purchase_id |-> req[i].loc.row_id,
                   seller_id |-> req[i].loc.seller_id,
                   total_amount |-> totalAmount,
                   platform_fee |-> platformFee,
                   seller_amount |-> SellerAmount(totalAmount, platformFee)] IN
         IF ~earnings_fk(row)
         THEN /\ Throw(i, Err("earnings foreign key violation", Null))
              /\ UNCHANGED earnings
         ELSE IF ~earnings_purchase_unique(earnings, row)
         THEN /\ Throw(i, Err("earnings_purchase_id_key violation", Null))
              /\ UNCHANGED earnings
         ELSE /\ earnings' = earnings \cup {row}
              /\ Finish(i, Reply(200, "success", Null, req[i].loc.row_id))
    /\ UNCHANGED <<products, purchases>>

handleWebhook(i) ==
    \/ WebhookReceive(i)
    \/ WebhookUpdate(i)
    \/ WebhookSeller(i)
    \/ WebhookEarnings(i)

\* paymentService.verifyPayment(...): payment.service.js defines and exports
\* no such function, so its outcomes are taken from the design: the client's
\* report is never trusted, the call writes nothing and either returns a
\* result or throws.
VerifyPaymentOutcomes ==
    {Reply(200, "verify result", Null, Null), errorHandler(Err("TypeError", Null))}

\* POST /api/payment/verify: the controller answers 400 when a field is
\* missing and otherwise passes on what paymentService.verifyPayment gives.
verifyPayment(i) ==
    /\ CanStart(i)
    /\ \E complete \in BOOLEAN, outcome \in VerifyPaymentOutcomes :
          /\ ~complete => outcome.status = 200
          /\ req' = [req EXCEPT ![i] =
                [IdleReq EXCEPT !.op = "verifyPayment", !.pc = "done",
                   !.seen = Answered,
                   !.res = IF complete
                           THEN outcome
                           ELSE Reply(400, "Missing payment fields", Null, Null)]]
          /\ UNCHANGED <<products, purchases, earnings>>

\* ------------------------------------------------------- pdf.service.js
\* Mutant: the access check without its "AND status = 'paid'" condition.
PaidPurchases_AnyStatus(buyerId, productId) ==
    {r \in purchases : r.buyer_id = buyerId /\ r.product_id = productId}

\* SELECT id FROM purchases
\*   WHERE buyer_id = $1 AND product_id = $2 AND status = 'paid'
PaidPurchases(buyerId, productId) ==
    {r \in purchases : /\ r.buyer_id = buyerId
                       /\ r.product_id = productId
                       /\ r.status = "paid"}

\* getSignedUrl(productId, buyerId) -- GET /api/pdf/:id/access, called by
\* buyers.
GetSignedUrlStart(i) ==
    /\ CanStart(i)
    /\ \E b \in Buyers, p \in ProductIds :
          /\ Begin(i, "getSignedUrl", "gs_purchase", b, p, NoBody, NoSignature)
          /\ UNCHANGED <<products, purchases, earnings>>

\* 1. verify that a paid purchase exists; 403 otherwise.
GetSignedUrlPurchase(i) ==
    /\ req[i].pc = "gs_purchase"
    /\ IF PaidPurchases(req[i].user, req[i].product) = {}
       THEN Throw(i, Err("Purchase not found or not paid", 403))
       ELSE Goto(i, "gs_product", req[i].loc)
    /\ UNCHANGED <<products, purchases, earnings>>

\* 2. SELECT file_path, allow_download FROM pdf_products WHERE id = $1; 404
\* when absent; 3. createSignedUrl(...), which reads and writes no table,
\* and the reply with the URL.
GetSignedUrlProduct(i) ==
    /\ req[i].pc = "gs_product"
    /\ IF \E p \in products : p.id = req[i].product
       THEN Finish(i, Reply(200, "signed_url", Null, Null))
       ELSE Throw(i, Err("Product not found", 404))
    /\ UNCHANGED <<products, purchases, earnings>>

getSignedUrl(i) ==
    \/ GetSignedUrlStart(i)
    \/ GetSignedUrlPurchase(i)
    \/ GetSignedUrlProduct(i)

\* deleteProduct(productId, sellerId) -- the seller's DELETE /api/pdf/:id
DeleteProductStart(i) ==
    /\ CanStart(i)
    /\ \E u \in Sellers, p \in ProductIds :
          /\ Begin(i, "deleteProduct", "dp_product", u, p, NoBody, NoSignature)
          /\ UNCHANGED <<products, purchases, earnings>>

\* 1. SELECT ... FROM pdf_products WHERE id = $1 AND seller_id = $2
DeleteProductOwner(i) ==
    /\ req[i].pc = "dp_product"
    /\ IF \E p \in products : p.id = req[i].product /\ p.seller_id = req[i].user
       THEN Goto(i, "dp_count", req[i].loc)
       ELSE Throw(i, Err("Product not found or you do not own it", 404))
    /\ UNCHANGED <<products, purchases, earnings>>

\* 2. SELECT COUNT(*) FROM purchases WHERE product_id = $1 AND status = 'paid'
DeleteProductCount(i) ==
    /\ req[i].pc = "dp_count"
    /\ LET paidCount == Cardinality({r \in purchases :
                            r.product_id = req[i].product /\ r.status = "paid"})
       IN Goto(i, IF paidCount > 0 THEN "dp_soft" ELSE "dp_hard",
               [req[i].loc EXCEPT !.paid_count = paidCount])
    /\ UNCHANGED <<products, purchases, earnings>>

\* 3A. UPDATE pdf_products SET is_active = false WHERE id = $1
DeleteProductSoft(i) ==
    /\ req[i].pc = "dp_soft"
    /\ products' = {IF p.id = req[i].product
                    THEN [p EXCEPT !.is_active = FALSE] ELSE p : p \in products}
    /\ Finish(i, Reply(200, "soft_deleted", Null, Null))
    /\ UNCHANGED <<purchases, earnings>>

\* 3B. DELETE FROM pdf_products WHERE id = $1
DeleteProductHard(i) ==
    /\ req[i].pc = "dp_hard"
    /\ DeleteProductRow(req[i].product)
    /\ Finish(i, Reply(200, "deleted", Null, Null))

deleteProduct(i) ==
    \/ DeleteProductStart(i)
    \/ DeleteProductOwner(i)
    \/ DeleteProductCount(i)
    \/ DeleteProductSoft(i)
    \/ DeleteProductHard(i)

\* ----------------------------------------------------- admin.service.js
\* deleteProduct({ productId, adminId }) -- the moderator's hard delete
AdminDeleteStart(i) ==
    /\ CanStart(i)
    /\ \E p \in ProductIds :
          /\ Begin(i, "adminDelete", "ad_product", "-", p, NoBody, NoSignature)
          /\ UNCHANGED <<products, purchases, earnings>>

AdminDeleteFetch(i) ==
    /\ req[i].pc = "ad_product"
    /\ IF \E p \in products : p.id = req[i].product
       THEN Goto(i, "ad_delete", req[i].loc)
       ELSE Throw(i, Err("Product not found", 404))
    /\ UNCHANGED <<products, purchases, earnings>>

AdminDeleteRow(i) ==
    /\ req[i].pc = "ad_delete"
    /\ DeleteProductRow(req[i].product)
    /\ Finish(i, Reply(200, "deleted", Null, Null))

adminDeleteProduct(i) ==
    \/ AdminDeleteStart(i)
    \/ AdminDeleteFetch(i)
    \/ AdminDeleteRow(i)

\* ----------------------------------------- pdf.service.js (updatePrice)
\* What parseFloat(req.body.price) can give the controller: NaN, a negative
\* number, or one of the Prices.
PriceInputs ==
    {[nan |-> TRUE, value |-> Null]} \cup
    {[nan |-> FALSE, value |-> v] : v \in Prices \cup {-1}}

\* updatePrice (controller): isNaN(newPrice) answers 400 'Invalid price'.
UpdatePriceStart(i) ==
    /\ CanStart(i)
    /\ \E u \in Users, p \in ProductIds, newPrice \in PriceInputs :
          /\ LET r == [op |-> "updatePrice", pc |-> "up_product", user |-> u,
                       product |-> p, body |-> NoBody, sig |-> NoSignature,
                       loc |-> [NoLocals EXCEPT !.price = newPrice.value],
                       res |-> NoReply, seen |-> Answered] IN
               req' = [req EXCEPT ![i] =
                  IF newPrice.nan
                  THEN [r EXCEPT !.pc = "done",
                          !.res = Reply(400, "Invalid price", Null, Null)]
                  ELSE r]
          /\ UNCHANGED <<products, purchases, earnings>>

\* 1. SELECT id FROM pdf_products WHERE id = $1 AND seller_id = $2 -> 404;
\* 2. newPrice < 0 -> 400.
UpdatePriceOwner(i) ==
    /\ req[i].pc = "up_product"
    /\ IF ~\E p \in products : p.id = req[i].product /\ p.seller_id = req[i].user
       THEN Throw(i, Err("Product not found or you do not own it", 404))
       ELSE IF req[i].loc.price < 0
       THEN Throw(i, Err("Price cannot be negative", 400))
       ELSE Goto(i, "up_update", req[i].loc)
    /\ UNCHANGED <<products, purchases, earnings>>

\* 3. UPDATE pdf_products SET price = $1 WHERE id = $2 RETURNING *; the
\* reply is the updated row, or nothing when the row is gone by now.
UpdatePriceUpdate(i) ==
    /\ req[i].pc = "up_update"
    /\ products' = {IF p.id = req[i].product
                    THEN [p EXCEPT !.price = req[i].loc.price] ELSE p
                      : p \in products}
    /\ Finish(i, IF \E p \in products : p.id = req[i].product
                 THEN [Reply(200, "product", Null, Null)
                          EXCEPT !.amount = req[i].loc.price]
                 ELSE Reply(200, "undefined", Null, Null))
    /\ UNCHANGED <<purchases, earnings>>

updatePrice(i) ==
    \/ UpdatePriceStart(i)
    \/ UpdatePriceOwner(i)
    \/ UpdatePriceUpdate(i)

\* ------------------------------------------------------- specification
Next ==
    \E i \in Procs :
        \/ createOrder(i)
        \/ handleWebhook(i)
        \/ verifyPayment(i)
        \/ getSignedUrl(i)
        \/ deleteProduct(i)
        \/ adminDeleteProduct(i)

Spec == Init /\ [][Next]_vars

\* The same system started from a listing with any of the ListedPrices.
SpecListed == InitListed /\ [][Next]_vars

\* --------------------------------------------------------------- faults
\* Positions whose next step is a pool.query(...) statement.
QueryPcs == {"co_product", "co_existing", "co_delete", "co_free_purchase",
             "co_free_earnings", "co_insert", "wh_update", "wh_seller",
             "wh_earnings", "gs_purchase", "gs_product", "dp_product",
             "dp_count", "dp_soft", "dp_hard", "ad_product", "ad_delete"}

\* The statement request i is about to run is rejected by the pool (lost
\* connection, timeout): nothing is written, the promise rejects with an
\* error that carries no status, and the handler passes it to next(err).
QueryFails(i) ==
    /\ req[i].pc \in QueryPcs
    /\ Throw(i, Err(req[i].pc, Null))
    /\ UNCHANGED <<products, purchases, earnings>>

\* Mutant: the pending row written before the gateway is called, and left
\* behind when the call fails.
GatewayFails_RowFirst(i) ==
    /\ req[i].pc = "co_gateway"
    /\ purchases' = purchases \cup
          {[id |-> i, buyer_id |-> req[i].user, product_id |-> req[i].product,
            razorpay_order_id |-> Null, razorpay_payment_id |-> Null,
            amount |-> req[i].loc.price, status |-> "pending"]}
    /\ Throw(i, Err("gateway error", Null))
    /\ UNCHANGED <<products, earnings>>

\* razorpay.orders.create rejects; createOrder has no catch around it.
GatewayFails(i) ==
    /\ req[i].pc = "co_gateway"
    /\ Throw(i, Err("gateway error", Null))
    /\ UNCHANGED <<products, purchases, earnings>>

\* createSignedUrl resolves with an error: getSignedUrl throws with 500.
StorageFails(i) ==
    /\ req[i].pc = "gs_product"
    /\ \E p \in products : p.id = req[i].product
    /\ Throw(i, Err("Signed URL generation failed", 500))
    /\ UNCHANGED <<products, purchases, earnings>>

NextFault ==
    \/ Next
    \/ \E i \in Procs : QueryFails(i) \/ GatewayFails(i) \/ StorageFails(i)

\* The system with statement, gateway and storage failures.
SpecFault == Init /\ [][NextFault]_vars

NextGateway ==
    \/ Next
    \/ \E i \in Procs : GatewayFails(i)

\* The system in which only the payment gateway can fail.
SpecGateway == Init /\ [][NextGateway]_vars

NextReprice ==
    \E i \in Procs : createOrder(i) \/ handleWebhook(i) \/ updatePrice(i)

\* Purchases and settlements while sellers change the price of the product.
SpecReprice == Init /\ [][NextReprice]_vars

\* ------------------------------------------------------------ properties
\* Request i is a webhook delivery the gateway signed, of a payment.captured
\* event for order o.
CapturedFor(i, o) ==
    /\ req[i].op = "webhook"
    /\ req[i].sig = Hmac(req[i].body)
    /\ req[i].body.event = "payment.captured"
    /\ req[i].body.order_id = o

\* Request i's conditional UPDATE matched a row (it is past step 3).
Transitioned(i) ==
    /\ req[i].op = "webhook"
    /\ \/ req[i].pc \in {"wh_seller", "wh_earnings"}
       \/ /\ req[i].pc = "done"
          /\ req[i].res.kind \in {"success", "TypeError", "wh_seller",
                                  "wh_earnings",
                                  "earnings foreign key violation",
                                  "earnings_purchase_id_key violation"}

EarningsOf(purchaseId) == {e \in earnings : e.purchase_id = purchaseId}

Quiescent == \A i \in Procs : req[i].pc \in {"idle", "done"}

\* C1: in every reachable state the purchases table holds at most one row
\* per (buyer, product) pair.
C1_OnePurchasePerPair ==
    \A r1 \in purchases, r2 \in purchases :
        (r1.buyer_id = r2.buyer_id /\ r1.product_id = r2.product_id)
            => r1 = r2

\* The constraint has rejected an insert while the pair's row is in place.
C1_Witness ==
    \E i \in Procs, r \in purchases :
        /\ req[i].pc = "done"
        /\ req[i].op = "createOrder"
        /\ req[i].res.kind = "uq_buyer_product violation"
        /\ r.buyer_id = req[i].user
        /\ r.product_id = req[i].product

C3_SecondDeliveryNoOp ==
    \A i \in Procs, j \in Procs :
        ( /\ req[i].pc = "done" /\ req[j].pc = "done"
          /\ i \in req[j].seen
          /\ \E o \in Procs : CapturedFor(i, o) /\ CapturedFor(j, o)
          /\ req[i].res.kind = "success" )
        => /\ req[j].res = Reply(200, "already_processed", Null, Null)
           /\ ~Transitioned(j)
           /\ req[i].res.status = 200
           /\ req[i].res.purchase_id # Null
           /\ \A r \in purchases :
                 r.id = req[i].res.purchase_id
                    => /\ r.status = "paid"
                       /\ Cardinality(EarningsOf(r.id)) = 1

C3_Witness ==
    \E i \in Procs, j \in Procs, r \in purchases :
        /\ req[i].pc = "done" /\ req[j].pc = "done"
        /\ i \in req[j].seen
        /\ CapturedFor(i, r.razorpay_order_id)
        /\ CapturedFor(j, r.razorpay_order_id)
        /\ req[i].res.kind = "success"
        /\ req[i].res.purchase_id = r.id
        /\ req[j].res.kind = "already_processed"
        /\ r.status = "paid"
        /\ Cardinality(EarningsOf(r.id)) = 1

\* C4: among any deliveries of a signed payment.captured event for one order
\* reference, interleaved in any way, at most one performs the
\* pending-to-paid update, and it is the one that inserts the earnings row;
\* every other one answers already_processed (200) and inserts nothing; once
\* a delivery has been answered the order's purchase is paid.
C4_OneDeliveryWins ==
    \A o \in Procs :
        LET deliveries == {i \in Procs : CapturedFor(i, o)}
            winners == {i \in deliveries : Transitioned(i)}
        IN /\ Cardinality(winners) <= 1
           /\ \A i \in deliveries \ winners :
                 req[i].pc = "done"
                    => /\ req[i].res = Reply(200, "already_processed", Null, Null)
                       /\ \A e \in earnings : e.id # i
           /\ \A r \in purchases :
                 r.razorpay_order_id = o
                    => /\ Cardinality(EarningsOf(r.id)) <= 1
                       /\ \A e \in EarningsOf(r.id) : e.id \in winners
                       /\ (\E i \in deliveries : req[i].pc = "done")
                             => (r.status = "paid" /\ winners # {})

\* One delivery is between its UPDATE and its INSERT while another delivery
\* of the same event has already been answered.
C4_Witness ==
    \E i \in Procs, j \in Procs, o \in Procs :
        /\ i # j
        /\ CapturedFor(i, o) /\ CapturedFor(j, o)
        /\ req[i].pc = "wh_earnings"
        /\ req[j].pc = "done"
        /\ req[j].res.kind = "already_processed"
        /\ i \notin req[j].seen /\ j \notin req[i].seen

\* C5: once the pair (buyer, product) has a paid purchase it keeps one in
\* every later state in which the product still exists: no step of
\* createOrder deletes the paid row or leaves the pair pending.
C5_PaidStaysPaid ==
    [][\A r \in purchases :
          ( /\ r.status = "paid"
            /\ \E p \in products' : p.id = r.product_id )
          => \E q \in purchases' : /\ q.buyer_id = r.buyer_id
                                   /\ q.product_id = r.product_id
                                   /\ q.status = "paid"
      ]_vars

\* C6: whenever no request is in progress (also after a request failed
\* between two of its statements) every paid purchase has exactly one
\* earnings row and every earnings row belongs to a paid purchase.
C6_SettlementAtomic ==
    Quiescent =>
        /\ \A r \in purchases :
              r.status = "paid" => Cardinality(EarningsOf(r.id)) = 1
        /\ \A e \in earnings :
              \E r \in purchases : r.id = e.purchase_id /\ r.status = "paid"

\* C7: two overlapping createOrder calls of one buyer for the same paid
\* product they do not own, with nothing else running, end with exactly one
\* call answered with an order (one pending purchase) and the other answered
\* with a Conflict (409).
C7_OneOrderOneConflict ==
    \A i \in Procs, j \in Procs :
        ( /\ i # j
          /\ req[i].op = "createOrder" /\ req[j].op = "createOrder"
          /\ req[i].pc = "done" /\ req[j].pc = "done"
          /\ req[i].user = req[j].user /\ req[i].product = req[j].product
          /\ i \notin req[j].seen /\ j \notin req[i].seen
          /\ \A k \in Procs \ {i, j} : req[k].pc = "idle"
          /\ \E p \in products : /\ p.id = req[i].product
                                 /\ p.price > 0
                                 /\ p.seller_id # req[i].user )
        => /\ \E w \in {i, j} :
                /\ req[w].res.kind = "order"
                /\ \A l \in {i, j} \ {w} : req[l].res.status = 409
           /\ Cardinality({r \in purchases : /\ r.buyer_id = req[i].user
                                             /\ r.product_id = req[i].product
                                             /\ r.status = "pending"}) = 1

\* C8: a createOrder whose INSERT was rejected by uq_buyer_product is answered
\* with a Conflict (409).
C8_UniqueViolationIsConflict ==
    \A i \in Procs :
        ( /\ req[i].op = "createOrder"
          /\ req[i].pc = "done"
          /\ req[i].res.kind = "uq_buyer_product violation" )
        => req[i].res.status = 409

\* C9: when a delivery failed after its UPDATE and before its earnings INSERT,
\* and a redelivery of the same event arrived afterwards and was answered
\* with status 200, the order's purchase is paid and has its earnings row.
C9_RedeliveryRepairs ==
    \A i \in Procs, j \in Procs, o \in Procs :
        ( /\ CapturedFor(i, o) /\ CapturedFor(j, o)
          /\ req[i].pc = "done"
          /\ req[i].res.kind \in {"wh_seller", "wh_earnings"}
          /\ req[j].pc = "done"
          /\ i \in req[j].seen
          /\ req[j].res.status = 200 )
        => \A r \in purchases :
              r.razorpay_order_id = o
                 => r.status = "paid" /\ EarningsOf(r.id) # {}

\* C10: for every earnings row, platform_fee + seller_amount = total_amount
\* in whole cents, no amount being negative.
C10_SplitSumsToTotal ==
    \A e \in earnings :
        /\ e.platform_fee + e.seller_amount = e.total_amount
        /\ e.platform_fee >= 0
        /\ e.seller_amount >= 0

\* A settled purchase whose fee fell on a half cent: 10.05 -> 1.01 + 9.04.
C10_Witness ==
    \E e \in earnings : /\ e.total_amount = 1005
                        /\ e.platform_fee = 101
                        /\ e.seller_amount = 904

\* C11: for a paid product of price p, createOrder answers with an order
\* reference and the amount p in minor units; once a signed payment.captured
\* delivery for that order has answered success, the purchase is paid and its
\* earnings row has total_amount = p, platform_fee = p times the commission
\* rate rounded to the nearest cent (a half cent upwards), and seller_amount
\* = total_amount - platform_fee.
C11_EndToEndAmounts ==
    /\ \A i \in Procs, p \in products :
          ( /\ req[i].op = "createOrder" /\ req[i].pc = "done"
            /\ req[i].res.kind = "order"
            /\ p.id = req[i].product )
          => /\ req[i].res.order_id # Null
             /\ req[i].res.amount = p.price
    /\ \A i \in Procs, r \in purchases :
          ( /\ CapturedFor(i, r.razorpay_order_id)
            /\ req[i].pc = "done"
            /\ req[i].res.kind = "success"
            /\ req[i].res.purchase_id = r.id )
          => /\ r.status = "paid"
             /\ \E e \in EarningsOf(r.id) :
                   /\ e.total_amount = r.amount
                   /\ \E p \in products :
                         p.id = r.product_id /\ p.price = e.total_amount
                   /\ LET hundredths == e.total_amount * CommissionPercent
                      IN e.platform_fee = (2 * hundredths + 100) \div 200
                   /\ e.seller_amount = e.total_amount - e.platform_fee

\* Request j ran on its own: every other request was answered before j
\* arrived or has not arrived yet.
RanAlone(j) ==
    /\ req[j].pc = "done"
    /\ \A k \in Procs \ {j} : req[k].pc = "idle" \/ k \in req[j].seen

\* The purchases of buyer b for product p.
PurchasesOf(b, p) ==
    {r \in purchases : r.buyer_id = b /\ r.product_id = p}

\* C12: a createOrder run on its own by a buyer for a product of price 0
\* that the buyer does not sell and has not acquired before answers with the
\* free result and leaves one purchase of the pair, paid, of amount 0,
\* without order reference, with one earnings row whose three amounts are 0;
\* a request that read price 0 never reaches the gateway call.
C12_FreeAcquisition ==
    /\ \A i \in Procs :
          req[i].pc \in {"co_gateway", "co_insert"} => req[i].loc.price > 0
    /\ \A j \in Procs, p \in products :
          ( /\ req[j].op = "createOrder"
            /\ RanAlone(j)
            /\ p.id = req[j].product
            /\ p.price = 0
            /\ p.seller_id # req[j].user
            /\ \A k \in req[j].seen :
                  ~ ( /\ req[k].op = "createOrder"
                      /\ req[k].user = req[j].user
                      /\ req[k].product = req[j].product
                      /\ req[k].res.kind = "free" ) )
          => /\ req[j].res = Reply(201, "free", Null, Null)
             /\ Cardinality(PurchasesOf(req[j].user, p.id)) = 1
             /\ \A r \in PurchasesOf(req[j].user, p.id) :
                   /\ r.status = "paid"
                   /\ r.amount = 0
                   /\ r.razorpay_order_id = Null
                   /\ Cardinality(EarningsOf(r.id)) = 1
                   /\ \A e \in EarningsOf(r.id) :
                         /\ e.total_amount = 0
                         /\ e.platform_fee = 0
                         /\ e.seller_amount = 0

\* A free acquisition has been answered after other requests were served.
C12_Witness ==
    \E j \in Procs, r \in purchases, e \in earnings :
        /\ req[j].op = "createOrder"
        /\ RanAlone(j)
        /\ req[j].seen # {}
        /\ req[j].res.kind = "free"
        /\ r.id = j /\ r.status = "paid" /\ r.amount = 0
        /\ e.purchase_id = r.id /\ e.total_amount = 0

\* When request j arrived, the pair's purchase was the pending row of the
\* order that request i had been answered with: i is an earlier createOrder
\* of the same pair, and no other request answered before j obtained an
\* order or settled one.
AbandonedBefore(i, j) ==
    /\ i \in req[j].seen
    /\ req[i].op = "createOrder"
    /\ req[i].user = req[j].user
    /\ req[i].product = req[j].product
    /\ req[i].res.kind = "order"
    /\ \A k \in req[j].seen \ {i} :
          req[k].res.kind # "order" /\ ~Transitioned(k)

\* C13: a createOrder for a paid product that runs on its own while the
\* pair's purchase is pending from an earlier, abandoned order is answered
\* with a new order; afterwards the pair has exactly one purchase row, it is
\* pending, and it carries the order reference of this second call and not
\* that of the first.
C13_RetryAfterAbandon ==
    \A i \in Procs, j \in Procs, p \in products :
        ( /\ req[j].op = "createOrder"
          /\ RanAlone(j)
          /\ AbandonedBefore(i, j)
          /\ p.id = req[j].product
          /\ p.price > 0 )
        => /\ req[j].res.kind = "order"
           /\ req[j].res.status = 201
           /\ req[j].res.order_id # req[i].res.order_id
           /\ Cardinality(PurchasesOf(req[j].user, p.id)) = 1
           /\ \A r \in PurchasesOf(req[j].user, p.id) :
                 /\ r.status = "pending"
                 /\ r.razorpay_order_id = req[j].res.order_id

\* The retry has been answered and its row has replaced the abandoned one.
C13_Witness ==
    \E i \in Procs, j \in Procs, r \in purchases :
        /\ req[j].op = "createOrder"
        /\ RanAlone(j)
        /\ AbandonedBefore(i, j)
        /\ req[j].res.kind = "order"
        /\ r.buyer_id = req[j].user
        /\ r.status = "pending"
        /\ r.razorpay_order_id = req[j].res.order_id
        /\ r.razorpay_order_id # req[i].res.order_id

\* C14: a webhook request whose signature header is not the HMAC of the
\* body it carries (a header computed over the body before a field was
\* altered, or no header at all) is answered at once with status 400, the
\* event in the body is not acted upon, and no purchase or earnings row
\* changes.
C14_InvalidSignatureRejected ==
    [][\A i \in Procs :
          ( /\ req[i].pc = "idle"
            /\ req'[i].op = "webhook"
            /\ req'[i].sig # Hmac(req'[i].body) )
          => /\ req'[i].pc = "done"
             /\ req'[i].res.status = 400
             /\ req'[i].res.kind \in {"Invalid webhook signature",
                                      "Missing signature header"}
             /\ purchases' = purchases
             /\ earnings' = earnings
      ]_vars

\* A payment.captured body signed as another event has been rejected while
\* the order it names is pending, and so has a request without header.
C14_Witness ==
    \E i \in Procs, j \in Procs, r \in purchases :
        /\ req[i].op = "webhook" /\ req[i].pc = "done"
        /\ req[i].sig = Hmac(Tampered(req[i].body))
        /\ req[i].body.event = "payment.captured"
        /\ req[i].body.order_id = r.razorpay_order_id
        /\ req[i].res.status = 400
        /\ r.status = "pending"
        /\ req[j].op = "webhook" /\ req[j].pc = "done"
        /\ ~req[j].sig.present
        /\ req[j].res.status = 400

\* C15: when the UPDATE of a signed payment.captured delivery runs and no
\* purchase with the event's order reference is pending (the order is
\* unknown, or its purchase is settled already), the delivery is answered
\* already_processed with status 200 and no purchase or earnings row changes.
C15_NoPendingMatchNoOp ==
    [][\A i \in Procs, o \in OrderIds :
          ( /\ CapturedFor(i, o)
            /\ req[i].pc = "wh_update"
            /\ req'[i].pc # "wh_update"
            /\ \A r \in purchases :
                  ~(r.razorpay_order_id = o /\ r.status = "pending") )
          => /\ req'[i].pc = "done"
             /\ req'[i].res = Reply(200, "already_processed", Null, Null)
             /\ purchases' = purchases
             /\ earnings' = earnings
      ]_vars

\* A delivery for an order unknown to the backend has been answered
\* already_processed while the purchase of another order stays pending.
C15_Witness ==
    \E i \in Procs, r \in purchases :
        /\ CapturedFor(i, UnknownOrder)
        /\ req[i].pc = "done"
        /\ req[i].res = Reply(200, "already_processed", Null, Null)
        /\ r.status = "pending"
        /\ r.razorpay_order_id # Null
        /\ req[r.id].pc = "done"
        /\ r.id \in req[i].seen

\* C16: when createOrder's lookup finds the buyer's purchase of the product
\* with status paid, the request ends there with a 409 Conflict: it does not
\* go on to the DELETE, the gateway call or an INSERT, and the paid purchase
\* and its earnings row are unchanged.
C16_AlreadyOwnedConflict ==
    [][\A i \in Procs :
          ( /\ req[i].op = "createOrder"
            /\ req[i].pc = "co_existing"
            /\ req'[i].pc # "co_existing"
            /\ \E r \in purchases : /\ r.buyer_id = req[i].user
                                     /\ r.product_id = req[i].product
                                     /\ r.status = "paid" )
          => /\ req'[i].pc = "done"
             /\ req'[i].res.status = 409
             /\ req'[i].res.order_id = Null
             /\ purchases' = purchases
             /\ earnings' = earnings
      ]_vars

\* A buyer whose purchase is settled has asked again and got the 409, the
\* paid purchase and its earnings row being in place.
C16_Witness ==
    \E i \in Procs, r \in purchases :
        /\ req[i].op = "createOrder"
        /\ req[i].pc = "done"
        /\ req[i].res.status = 409
        /\ r.buyer_id = req[i].user
        /\ r.product_id = req[i].product
        /\ r.status = "paid"
        /\ r.razorpay_order_id # Null
        /\ Cardinality(EarningsOf(r.id)) = 1

\* C17: a createOrder by the seller of the product gets no further than the
\* product fetch (no purchase lookup, DELETE, INSERT or gateway call) and is
\* answered with the client error "You cannot purchase your own product";
\* no purchase has the seller of its product as buyer.
C17_NoSelfPurchase ==
    /\ \A i \in Procs, p \in products :
          ( /\ req[i].op = "createOrder"
            /\ p.id = req[i].product
            /\ p.seller_id = req[i].user )
          => /\ req[i].pc \in {"co_product", "done"}
             /\ req[i].pc = "done"
                   => /\ req[i].res.status = 400
                      /\ req[i].res.kind = "You cannot purchase your own product"
    /\ \A r \in purchases, p \in products :
          p.id = r.product_id => r.buyer_id # p.seller_id

\* The seller's attempt has been refused while a buyer's purchase exists.
C17_Witness ==
    \E i \in Procs, p \in products, r \in purchases :
        /\ req[i].op = "createOrder"
        /\ req[i].pc = "done"
        /\ p.id = req[i].product
        /\ p.seller_id = req[i].user
        /\ req[i].res.status = 400
        /\ r.product_id = p.id

\* Request i is a webhook call whose header is not the HMAC of its body.
InvalidSignature(i) ==
    /\ req[i].op = "webhook"
    /\ req[i].sig # Hmac(req[i].body)

\* C18: the answer to a webhook call with an invalid signature depends on
\* nothing but the presence of the header: any two such calls, whatever
\* order their bodies name and whether that order's purchase is pending,
\* paid or absent when they arrive, get the same rejection, and neither of
\* them goes on to update a purchase or write an earnings row.
C18_RejectionIgnoresLedger ==
    \A i \in Procs, j \in Procs :
        ( /\ InvalidSignature(i) /\ InvalidSignature(j)
          /\ req[i].sig.present = req[j].sig.present )
        => /\ req[i].pc = "done" /\ req[j].pc = "done"
           /\ req[i].res = req[j].res
           /\ req[i].res.status = 400
           /\ ~Transitioned(i)
           /\ \A e \in earnings : e.id # i

\* Two forged calls have been answered alike, one naming the order of a
\* pending purchase and one naming an order the backend does not know.
C18_Witness ==
    \E i \in Procs, j \in Procs, r \in purchases :
        /\ InvalidSignature(i) /\ InvalidSignature(j)
        /\ req[i].sig.present /\ req[j].sig.present
        /\ req[i].body.event = "payment.captured"
        /\ req[j].body.event = "payment.captured"
        /\ req[i].body.order_id = r.razorpay_order_id
        /\ r.status = "pending"
        /\ req[j].body.order_id = UnknownOrder
        /\ req[i].res = req[j].res
        /\ req[i].res.status = 400

\* Buyer b's purchase of product p has been made paid at some point: by the
\* UPDATE of a signed payment.captured delivery for an order b was given
\* for p, or by the free path's INSERT in a createOrder of b for p.
SettledFor(b, p) ==
    \/ \E k \in Procs, o \in Procs :
          /\ CapturedFor(k, o)
          /\ Transitioned(k)
          /\ req[o].op = "createOrder"
          /\ req[o].user = b
          /\ req[o].product = p
    \/ \E k \in Procs :
          /\ req[k].op = "createOrder"
          /\ req[k].user = b
          /\ req[k].product = p
          /\ \/ req[k].pc = "co_free_earnings"
             \/ /\ req[k].pc = "done"
                /\ req[k].res.kind \in {"free", "earnings foreign key violation",
                                        "earnings_purchase_id_key violation"}

\* C19: getSignedUrl passes its access check exactly when the buyer has a
\* purchase of the product with status paid at that moment, and answers 403
\* otherwise (so with only a pending purchase); a request that has passed the
\* check, and so every signed URL handed out, belongs to a buyer whose
\* purchase was settled by a verified payment.captured delivery or acquired
\* on the free path.
C19_AccessNeedsPaidPurchase ==
    [][\A i \in Procs :
          /\ ( /\ req[i].op = "getSignedUrl"
               /\ req[i].pc = "gs_purchase"
               /\ req'[i].pc # "gs_purchase" )
             => IF \E r \in purchases : /\ r.buyer_id = req[i].user
                                         /\ r.product_id = req[i].product
                                         /\ r.status = "paid"
                THEN req'[i].pc = "gs_product"
                ELSE req'[i].pc = "done" /\ req'[i].res.status = 403
          /\ ( /\ req[i].op = "getSignedUrl"
               /\ req[i].pc = "gs_product" )
             => /\ SettledFor(req[i].user, req[i].product)
                /\ req'[i].res.status = 200
                      => \E p \in products : p.id = req[i].product
      ]_vars

\* After a signed delivery settled the buyer's purchase, a signed URL has
\* been handed out.
C19_Witness ==
    \E i \in Procs, k \in Procs, r \in purchases :
        /\ req[i].op = "getSignedUrl"
        /\ req[i].pc = "done"
        /\ req[i].res.status = 200
        /\ r.buyer_id = req[i].user
        /\ r.product_id = req[i].product
        /\ r.status = "paid"
        /\ CapturedFor(k, r.razorpay_order_id)
        /\ req[k].res.kind = "success"
        /\ k \in req[i].seen

\* C20: a createOrder whose gateway call failed is answered with an error
\* (status 500) and no order; the request ends there, so it makes no second
\* gateway call, and it has inserted no purchase and no earnings row.
C20_GatewayFailureSurfaced ==
    \A i \in Procs :
        ( /\ req[i].op = "createOrder"
          /\ req[i].res.kind = "gateway error" )
        => /\ req[i].pc = "done"
           /\ req[i].res.status = 500
           /\ req[i].res.order_id = Null
           /\ ~Issued(i)
           /\ \A r \in purchases : r.id # i
           /\ \A e \in earnings : e.id # i

\* The gateway has failed for a buyer who is left without a purchase row.
C20_Witness ==
    \E i \in Procs :
        /\ req[i].op = "createOrder"
        /\ req[i].pc = "done"
        /\ req[i].res.kind = "gateway error"
        /\ req[i].res.status = 500
        /\ PurchasesOf(req[i].user, req[i].product) = {}
        /\ \E p \in products : p.id = req[i].product /\ p.price > 0

\* C21: a webhook delivery whose signature is the HMAC of its body and whose
\* event type is not payment.captured is answered ignored (200) on arrival
\* and changes no purchase or earnings row, also when the body names the
\* order reference of a pending purchase.
C21_OtherEventsIgnored ==
    [][\A i \in Procs :
          ( /\ req[i].pc = "idle"
            /\ req'[i].op = "webhook"
            /\ req'[i].sig = Hmac(req'[i].body)
            /\ req'[i].body.event # "payment.captured" )
          => /\ req'[i].pc = "done"
             /\ req'[i].res = Reply(200, "ignored", Null, Null)
             /\ purchases' = purchases
             /\ earnings' = earnings
      ]_vars

\* A signed payment.failed delivery naming the order of a pending purchase
\* has been answered ignored, and the purchase is still pending.
C21_Witness ==
    \E i \in Procs, r \in purchases :
        /\ req[i].op = "webhook" /\ req[i].pc = "done"
        /\ req[i].sig = Hmac(req[i].body)
        /\ req[i].body.event = "payment.failed"
        /\ req[i].body.order_id = r.razorpay_order_id
        /\ req[i].res.kind = "ignored"
        /\ r.status = "pending"
        /\ EarningsOf(r.id) = {}

\* Position of a createOrder request in the statement order of the handler;
\* the free and the paid branch are alternatives at the same positions.
CreateOrderStep(pc) ==
    CASE pc = "idle" -> 0
      [] pc = "co_product" -> 1
      [] pc = "co_existing" -> 2
      [] pc = "co_delete" -> 3
      [] pc \in {"co_free_purchase", "co_gateway"} -> 4
      [] pc \in {"co_free_earnings", "co_insert"} -> 5
      [] pc = "done" -> 6

\* C22 as stated: a createOrder call mutates purchase rows at most once (a
\* step of the call that changes the purchases table is taken only when the
\* call has not changed it before), and it calls the gateway at most once
\* and only after reading a price above 0.
C22_OneMutationPerCall ==
    [][\A i \in Procs :
          (req'[i] # req[i] /\ req'[i].op = "createOrder")
          => /\ (purchases' # purchases /\ req[i].pc # "co_delete")
                   => req[i].loc.deleted = 0
             /\ CreateOrderStep(req'[i].pc) > CreateOrderStep(req[i].pc)
             /\ req[i].pc = "co_gateway" => req[i].loc.price > 0
      ]_vars

\* C22 amended: every step of a createOrder call moves forward in the
\* statement order, so each statement runs at most once; the purchases
\* table changes only at the DELETE, which removes one row, and at one of
\* the two INSERTs, which adds one row, and no step alters a row in place;
\* the gateway is called only after a price above 0 was read.
C22_OneDeleteOneInsert ==
    [][\A i \in Procs :
          (req'[i] # req[i] /\ req'[i].op = "createOrder")
          => /\ CreateOrderStep(req'[i].pc) > CreateOrderStep(req[i].pc)
             /\ purchases' # purchases
                   => \/ /\ req[i].pc = "co_delete"
                         /\ purchases' \subseteq purchases
                         /\ Cardinality(purchases \ purchases') = 1
                      \/ /\ req[i].pc \in {"co_free_purchase", "co_insert"}
                         /\ purchases \subseteq purchases'
                         /\ Cardinality(purchases' \ purchases) = 1
             /\ req[i].pc = "co_gateway" => req[i].loc.price > 0
      ]_vars

\* Only two requests have run, both createOrder calls of one pair answered
\* with an order: the second has deleted the row of the first and inserted
\* its own.
C22_Witness ==
    \E i \in Procs, j \in Procs :
        /\ req[j].op = "createOrder"
        /\ RanAlone(j)
        /\ req[j].seen = {i}
        /\ AbandonedBefore(i, j)
        /\ req[j].res.kind = "order"
        /\ \E r \in purchases : r.id = j
        /\ \A r \in purchases : r.id # i

\* C23: no earnings row refers to a purchase that is pending; the earnings
\* row of a purchase made on the paid path (one carrying an order reference)
\* was written by a webhook request whose signature is the HMAC of its body,
\* whose event is payment.captured for that order reference and which was
\* answered success, never by a createOrder, and the purchase is then paid.
C23_NoEarningsWhilePending ==
    \A r \in purchases :
        /\ r.status = "pending" => EarningsOf(r.id) = {}
        /\ r.razorpay_order_id # Null =>
              \A e \in EarningsOf(r.id) :
                  /\ r.status = "paid"
                  /\ CapturedFor(e.id, r.razorpay_order_id)
                  /\ req[e.id].pc = "done"
                  /\ req[e.id].res = Reply(200, "success", Null, r.id)

\* A purchase begun on the paid path is paid and has its earnings row, and
\* the createOrder that began it was answered before the webhook arrived.
C23_Witness ==
    \E r \in purchases, e \in earnings :
        /\ r.razorpay_order_id # Null
        /\ r.status = "paid"
        /\ e.purchase_id = r.id
        /\ req[r.id].op = "createOrder"
        /\ req[r.id].res.kind = "order"
        /\ r.id \in req[e.id].seen

\* C24: a step of the seller's deleteProduct taken while a purchase of the
\* product is paid removes no purchase and no earnings row and keeps the
\* product row, changing at most its is_active flag to false.
C24_PaidPurchaseSurvivesDelete ==
    [][\A i \in Procs :
          ( /\ req[i].op = "deleteProduct"
            /\ req'[i] # req[i]
            /\ \E r \in purchases : /\ r.product_id = req[i].product
                                     /\ r.status = "paid" )
          => /\ purchases' = purchases
             /\ earnings' = earnings
             /\ \A p \in products :
                   \/ p \in products'
                   \/ [p EXCEPT !.is_active = FALSE] \in products'
      ]_vars

\* C25: the seller_id of every earnings row is the seller_id of the product
\* that the row's purchase refers to, whether the row was written by the
\* free path of createOrder or by handleWebhook.
C25_EarningsCreditOwner ==
    \A e \in earnings, r \in purchases, p \in products :
        (e.purchase_id = r.id /\ r.product_id = p.id)
        => e.seller_id = p.seller_id

\* A webhook has written the earnings row of a settled order, and the row,
\* its purchase and its product exist (the free path's row is the one of
\* C12_Witness).
C25_Witness ==
    \E e \in earnings, r \in purchases, p \in products :
        /\ e.purchase_id = r.id /\ r.product_id = p.id
        /\ e.seller_id = "s1"
        /\ r.buyer_id # e.seller_id
        /\ req[e.id].op = "webhook"
        /\ r.amount > 0

\* C26: in every reachable state each earnings row refers to a purchase in
\* the purchases table and each purchase refers to a product in the
\* pdf_products table; so once a purchase row is gone, deleted by a retry of
\* createOrder or by the cascade from its product, no earnings row with its
\* id is left.
C26_ReferentialIntegrity ==
    /\ \A e \in earnings : \E r \in purchases : r.id = e.purchase_id
    /\ \A r \in purchases : \E p \in products : p.id = r.product_id

\* A request wrote an earnings row and was answered; a moderator's delete
\* that arrived afterwards removed the product, and with it the purchase
\* and the earnings row.
C26_Witness ==
    \E k \in Procs, d \in Procs :
        /\ req[k].pc = "done"
        /\ req[k].res.kind \in {"success", "free"}
        /\ req[d].op = "adminDelete"
        /\ k \in req[d].seen
        /\ req[d].pc = "done"
        /\ req[d].res.kind = "deleted"
        /\ products = {} /\ purchases = {} /\ earnings = {}

\* C27: the total_amount of an earnings row is the amount stored on its
\* purchase, which is the amount of the order the createOrder call that
\* inserted the purchase was answered with, and the fee is 10 % of that
\* amount to within a cent, whatever price the product has by now.
C27_SettledAtInitiationAmount ==
    \A e \in earnings, r \in purchases :
        e.purchase_id = r.id
        => /\ e.total_amount = r.amount
           /\ req[r.id].op = "createOrder"
           /\ req[r.id].res.amount = AmountPaise(r.amount)
           /\ 100 * e.platform_fee - CommissionPercent * r.amount \in -100..100
           /\ e.seller_amount = r.amount - e.platform_fee

\* An order was issued at one price, the seller then changed the price, and
\* the webhook that came after settled the purchase at the order's amount.
C27_Witness ==
    \E e \in earnings, r \in purchases, p \in products, u \in Procs :
        /\ e.purchase_id = r.id
        /\ p.id = r.product_id
        /\ req[u].op = "updatePrice"
        /\ req[u].res.kind = "product"
        /\ r.id \in req[u].seen
        /\ u \in req[e.id].seen
        /\ req[e.id].op = "webhook"
        /\ p.price # r.amount
        /\ e.total_amount = r.amount
        /\ r.amount > 0

\* Request j re-initiated the purchase that request i had begun: both are
\* answered createOrder calls of one pair, i before j, the row of i is gone
\* and the row of j is pending under the order reference j was given.
Reinitiated(i, j) ==
    /\ req[i].op = "createOrder" /\ req[j].op = "createOrder"
    /\ req[i].pc = "done" /\ req[j].pc = "done"
    /\ req[i].res.kind = "order" /\ req[j].res.kind = "order"
    /\ req[i].user = req[j].user /\ req[i].product = req[j].product
    /\ i \in req[j].seen
    /\ \A r \in purchases : r.id # i
    /\ \E r \in purchases : /\ r.id = j
                             /\ r.status = "pending"
                             /\ r.razorpay_order_id = req[j].res.order_id

\* C28: after a re-initiation, the UPDATE of a webhook delivery whose
\* signature is the HMAC of its body and whose event is payment.captured for
\* the order reference of the earlier call matches no row: the delivery is
\* answered already_processed, and no purchase or earnings row changes, the
\* new row staying pending.
C28_StaleOrderCaptureDropped ==
    [][\A k \in Procs, i \in Procs, j \in Procs :
          ( /\ req[k].pc = "wh_update"
            /\ req'[k] # req[k]
            /\ Reinitiated(i, j)
            /\ req[k].sig = Hmac(req[k].body)
            /\ req[k].body.event = "payment.captured"
            /\ req[k].body.order_id = req[i].res.order_id )
          => /\ req'[k].pc = "done"
             /\ req'[k].res = Reply(200, "already_processed", Null, Null)
             /\ purchases' = purchases
             /\ earnings' = earnings
      ]_vars

\* The capture of the earlier order arrived after the re-initiation and has
\* been answered already_processed; the new row is pending, nothing is paid
\* and there is no earnings row.
C28_Witness ==
    \E k \in Procs, i \in Procs, j \in Procs :
        /\ Reinitiated(i, j)
        /\ CapturedFor(k, req[i].res.order_id)
        /\ j \in req[k].seen
        /\ req[k].pc = "done"
        /\ req[k].res.kind = "already_processed"
        /\ \A r \in purchases : r.status = "pending"
        /\ earnings = {}

\* C29: a createOrder that found a stale row stands at the gateway call
\* only after that row is gone; and when such a call, run on its own over
\* the pending row of an abandoned order, has its gateway call fail, it ends
\* with no purchase row of the pair, the deleted row not being restored.
C29_StaleRowLostOnGatewayFailure ==
    /\ \A j \in Procs :
          (req[j].pc = "co_gateway" /\ req[j].loc.row_id # Null)
          => \A r \in purchases : r.id # req[j].loc.row_id
    /\ \A i \in Procs, j \in Procs :
          ( /\ req[j].op = "createOrder"
            /\ RanAlone(j)
            /\ AbandonedBefore(i, j)
            /\ req[j].res.kind = "gateway error" )
          => PurchasesOf(req[j].user, req[j].product) = {}

\* The retry over an abandoned order's row has ended in a gateway error:
\* the product is still listed and the pair has no purchase row.
C29_Witness ==
    \E i \in Procs, j \in Procs :
        /\ req[j].op = "createOrder"
        /\ RanAlone(j)
        /\ AbandonedBefore(i, j)
        /\ req[j].res.kind = "gateway error"
        /\ \E p \in products : p.id = req[j].product
        /\ purchases = {}

\* C30: two overlapping createOrder calls of one buyer for the same free
\* product they do not own, with nothing else running, end with one call
\* answered with the free result and the other failed, with a 409 or with
\* the violation of uq_buyer_product; the pair then has exactly one purchase,
\* paid, and exactly one earnings row, with three zero amounts, both
\* written by the call that succeeded and none by the one that failed.
C30_FreeRaceOneWinner ==
    \A i \in Procs, j \in Procs :
        ( /\ i # j
          /\ req[i].op = "createOrder" /\ req[j].op = "createOrder"
          /\ req[i].pc = "done" /\ req[j].pc = "done"
          /\ req[i].user = req[j].user /\ req[i].product = req[j].product
          /\ i \notin req[j].seen /\ j \notin req[i].seen
          /\ \A k \in Procs \ {i, j} : req[k].pc = "idle"
          /\ \E p \in products : /\ p.id = req[i].product
                                 /\ p.price = 0
                                 /\ p.seller_id # req[i].user )
        => \E w \in {i, j} :
              /\ req[w].res = Reply(201, "free", Null, Null)
              /\ \A l \in {i, j} \ {w} :
                    /\ \/ req[l].res.status = 409
                       \/ req[l].res.kind = "uq_buyer_product violation"
                    /\ \A r \in purchases : r.id # l
                    /\ \A e \in earnings : e.id # l
              /\ Cardinality(purchases) = 1
              /\ \A r \in purchases :
                    /\ r.id = w
                    /\ r.buyer_id = req[i].user
                    /\ r.product_id = req[i].product
                    /\ r.status = "paid"
              /\ Cardinality(earnings) = 1
              /\ \A e \in earnings :
                    /\ e.purchase_id = w
                    /\ e.total_amount = 0
                    /\ e.platform_fee = 0
                    /\ e.seller_amount = 0

\* Both calls passed the duplicate check before either inserted: one has
\* the free result, the other was stopped by the uniqueness constraint.
C30_Witness ==
    \E i \in Procs, j \in Procs :
        /\ i # j
        /\ req[i].op = "createOrder" /\ req[j].op = "createOrder"
        /\ req[i].pc = "done" /\ req[j].pc = "done"
        /\ req[i].user = req[j].user /\ req[i].product = req[j].product
        /\ i \notin req[j].seen /\ j \notin req[i].seen
        /\ \A k \in Procs \ {i, j} : req[k].pc = "idle"
        /\ req[i].res.kind = "free"
        /\ req[j].res.kind = "uq_buyer_product violation"
        /\ Cardinality(purchases) = 1
        /\ Cardinality(earnings) = 1

====
